---- MODULE Spec2Model ----
(***************************************************************************)
(* Model of the keyboard shortcut engine of keyboard_tester                *)
(* (src/keyboard_tester/src/keyboard.rs): the KeyboardManager, its         *)
(* registration calls, start_listening and the event handler run by each   *)
(* listener thread, at the granularity of one lock operation, one loop     *)
(* iteration or one assignment per step.                                   *)
(***************************************************************************)
EXTENDS Integers, Sequences, FiniteSets, TLC

\* ---------------------------------------------------------------- bounds
\* A run makes either one start_listening call, as main does, with up to
\* MaxEvents key events and MaxShortcuts registrations, or two calls with one
\* event and one registration less (Limits).
MaxEvents == 3      \* key events the event source delivers in one run
MaxTime == 2        \* the monotonic clock runs from 0 to MaxTime
MaxShortcuts == 2   \* registration calls made in one run
MaxTimeout == 1     \* succession timeouts range over 0..MaxTimeout
MaxQueue == 1       \* events the event source holds for a listener that is busy

Keys == {"A", "B"}
\* the arguments registration calls are made with
KeySets == {{}, {"A"}, {"A", "B"}}
SuccessionKeys == {"A"}
Timeouts == 0..MaxTimeout
\* listener threads: one per start_listening call
Workers == {1, 2}

\* Option<T>: None, or Some(x)
None == <<>>
Some(x) == <<x>>

\* mutant: the handler scans the registry without locking it
LockOrderWithoutRegistry == <<"pressed_keys", "last_key_press_time", "last_key_pressed">>

\* the four mutexes of KeyboardManager, in the order the handler locks them
LockOrder == <<"pressed_keys", "last_key_press_time", "last_key_pressed", "shortcuts">>
Locks == {"pressed_keys", "last_key_press_time", "last_key_pressed", "shortcuts"}

\* register_combination and register_succession take &mut self: the borrow
\* rules allow one call on the manager at a time, so the callers of the public
\* API are one sequential thread of calls, concurrent only with the listener
\* threads
CallerThread == <<"caller", 0>>
WorkerThread(w) == <<"worker", w>>

\* ShortcutType and Shortcut; a callback is identified by the number of the
\* registration call that passed it
Combination(keys) == [tag |-> "Combination", keys |-> keys, key |-> "", timeout |-> 0]
Succession(key, timeout) == [tag |-> "Succession", keys |-> {}, key |-> key, timeout |-> timeout]
Shortcut(shortcut_type, callback) == [shortcut_type |-> shortcut_type, callback |-> callback]

\* rdev::EventType as the handler distinguishes it
KeyPress(key) == [event_type |-> "KeyPress", key |-> key]
KeyRelease(key) == [event_type |-> "KeyRelease", key |-> key]
OtherEvent == [event_type |-> "Other", key |-> ""]
EventTypes == {KeyPress(k) : k \in Keys} \cup {KeyRelease(k) : k \in Keys} \cup {OtherEvent}

\* rdev::Event: what happened, and time, the moment the key transition happened
\* (the handler reads event_type only)
Event(e, time) == [event_type |-> e.event_type, key |-> e.key, time |-> time]
NoEvent == Event(OtherEvent, 0)

NoShortcut == Shortcut(Combination({}), 0)

\* the sizes of the runs explored
Limits ==
    {[starts |-> 1, events |-> MaxEvents, calls |-> MaxShortcuts],
     [starts |-> 2, events |-> MaxEvents - 1, calls |-> MaxShortcuts - 1]}

VARIABLES
    shortcuts,            \* Vec<Shortcut>, in registration order
    pressed_keys,         \* HashSet<Key>
    last_key_press_time,  \* Option<Instant>
    last_key_pressed,     \* Option<Key>
    owner,                \* per mutex: None, or Some(thread holding it)
    cpc, carg,            \* the caller: position, and the Shortcut being pushed
    wpc, inbox, cur, idx, \* per listener thread: position, undelivered events, event handled, loop index
    now,                  \* the last value read from the monotonic clock
    nEvents,              \* key events the event source has observed
    nCalls,               \* registration calls made so far
    args,                 \* the ShortcutType each registration call was made with, in call order
    nStarts,              \* start_listening calls made so far
    log,                  \* per listener thread: the checks made while handling cur
    seen,                 \* per listener thread: registry met by each scan of the event handled
    lastPress,            \* the latest press event handled: None, or
                          \* Some(<<key, time recorded, time of the press>>)
    limit,                \* the size of this run, one of Limits
    nDelivered, nHandled  \* per listener thread: events delivered to it, events it matched

vars == <<shortcuts, pressed_keys, last_key_press_time, last_key_pressed, owner,
          cpc, carg, wpc, inbox, cur, idx, now, nEvents, nCalls, args, nStarts,
          log, seen, lastPress, limit, nDelivered, nHandled>>

shared == <<shortcuts, pressed_keys, last_key_press_time, last_key_pressed>>
callerVars == <<cpc, carg, nCalls, args>>
workerVars == <<wpc, inbox, cur, idx, log, seen, nDelivered, nHandled>>

\* KeyboardManager::new, and no thread started yet
Init ==
    /\ shortcuts = <<>>
    /\ pressed_keys = {}
    /\ last_key_press_time = None
    /\ last_key_pressed = None
    /\ owner = [l \in Locks |-> None]
    /\ cpc = "idle"
    /\ carg = NoShortcut
    /\ wpc = [w \in Workers |-> "unborn"]
    /\ inbox = [w \in Workers |-> <<>>]
    /\ cur = [w \in Workers |-> NoEvent]
    /\ idx = [w \in Workers |-> 0]
    /\ now = 0
    /\ nEvents = 0
    /\ nCalls = 0
    /\ args = <<>>
    /\ nStarts = 0
    /\ log = [w \in Workers |-> <<>>]
    /\ seen = [w \in Workers |-> <<>>]
    /\ lastPress = None
    /\ limit \in Limits
    /\ nDelivered = [w \in Workers |-> 0]
    /\ nHandled = [w \in Workers |-> 0]

\* ------------------------------------------------------------ registration
\* mutant: a shortcut of a type already registered is dropped
PushIfNew(vec, shortcut) ==
    IF \E i \in 1..Len(vec) : vec[i].shortcut_type = shortcut.shortcut_type
    THEN vec ELSE Append(vec, shortcut)

\* mutant: Vec::insert(0, shortcut)
PushFront(vec, shortcut) == <<shortcut>> \o vec

\* Vec::push
Push(vec, shortcut) == Append(vec, shortcut)

\* register_combination up to the lock() call; keys.into_iter().collect() is
\* the set of the keys passed
register_combination(keys) ==
    /\ cpc = "idle"
    /\ nCalls < limit.calls
    /\ carg' = Shortcut(Combination(keys), nCalls + 1)
    /\ cpc' = "lock"
    /\ nCalls' = nCalls + 1
    /\ args' = Append(args, Combination(keys))
    /\ UNCHANGED <<shared, owner, workerVars, now, nEvents, nStarts, lastPress, limit>>

\* mutant: a zero timeout is rejected and the call returns without an entry
register_succession_validated(key, timeout) ==
    /\ cpc = "idle"
    /\ nCalls < limit.calls
    /\ nCalls' = nCalls + 1
    /\ args' = Append(args, Succession(key, timeout))
    /\ IF timeout > 0
       THEN /\ carg' = Shortcut(Succession(key, timeout), nCalls + 1)
            /\ cpc' = "lock"
       ELSE UNCHANGED <<carg, cpc>>
    /\ UNCHANGED <<shared, owner, workerVars, now, nEvents, nStarts, lastPress, limit>>

\* register_succession up to the lock() call
register_succession(key, timeout) ==
    /\ cpc = "idle"
    /\ nCalls < limit.calls
    /\ carg' = Shortcut(Succession(key, timeout), nCalls + 1)
    /\ cpc' = "lock"
    /\ nCalls' = nCalls + 1
    /\ args' = Append(args, Succession(key, timeout))
    /\ UNCHANGED <<shared, owner, workerVars, now, nEvents, nStarts, lastPress, limit>>

\* mutant: lock() returns at once, whoever holds the mutex
RegisterLockNoWait ==
    /\ cpc = "lock"
    /\ cpc' = "push"
    /\ UNCHANGED <<shared, owner, carg, nCalls, args, workerVars, now, nEvents, nStarts,
                   lastPress, limit>>

\* self.shortcuts.lock().unwrap(): the caller waits until the mutex is free
RegisterLock ==
    /\ cpc = "lock"
    /\ owner["shortcuts"] = None
    /\ owner' = [owner EXCEPT !["shortcuts"] = Some(CallerThread)]
    /\ cpc' = "push"
    /\ UNCHANGED <<shared, carg, nCalls, args, workerVars, now, nEvents, nStarts,
                   lastPress, limit>>

\* mutant: a shortcut of a type already registered takes the place of the old
\* entry
RegisterPushReplacing ==
    /\ cpc = "push"
    /\ shortcuts' =
         IF \E i \in 1..Len(shortcuts) : shortcuts[i].shortcut_type = carg.shortcut_type
         THEN [i \in 1..Len(shortcuts) |->
                 IF shortcuts[i].shortcut_type = carg.shortcut_type THEN carg
                 ELSE shortcuts[i]]
         ELSE Push(shortcuts, carg)
    /\ owner' = [owner EXCEPT !["shortcuts"] =
                   IF owner["shortcuts"] = Some(CallerThread) THEN None
                   ELSE owner["shortcuts"]]
    /\ cpc' = "idle"
    /\ carg' = NoShortcut
    /\ UNCHANGED <<pressed_keys, last_key_press_time, last_key_pressed, nCalls,
                   args, workerVars, now, nEvents, nStarts, lastPress, limit>>

\* .push(shortcut); the guard is dropped at the end of the statement and the
\* call returns
RegisterPush ==
    /\ cpc = "push"
    /\ shortcuts' = Push(shortcuts, carg)
    /\ owner' = [owner EXCEPT !["shortcuts"] =
                   IF owner["shortcuts"] = Some(CallerThread) THEN None
                   ELSE owner["shortcuts"]]
    /\ cpc' = "idle"
    /\ carg' = NoShortcut
    /\ UNCHANGED <<pressed_keys, last_key_press_time, last_key_pressed, nCalls,
                   args, workerVars, now, nEvents, nStarts, lastPress, limit>>

\* --------------------------------------------------------- start_listening
\* mutant: the caller stays in the call for as long as the listener runs
start_listening_blocking ==
    /\ cpc = "idle"
    /\ nStarts < limit.starts
    /\ wpc' = [wpc EXCEPT ![nStarts + 1] = "spawned"]
    /\ nStarts' = nStarts + 1
    /\ cpc' = "listen"
    /\ UNCHANGED <<shared, owner, carg, nCalls, args, inbox, cur, idx, log, seen,
                   nDelivered, nHandled, now, nEvents, lastPress, limit>>

\* thread::spawn(...): a new listener thread; the call returns to its caller
start_listening ==
    /\ cpc = "idle"
    /\ nStarts < limit.starts
    /\ wpc' = [wpc EXCEPT ![nStarts + 1] = "spawned"]
    /\ nStarts' = nStarts + 1
    /\ UNCHANGED <<shared, owner, callerVars, inbox, cur, idx, log, seen, nDelivered,
                   nHandled, now, nEvents, lastPress, limit>>

\* mutant: a failed subscription is tried again
SubscribeRetrying(w) ==
    /\ wpc[w] \in {"spawned", "failed"}
    /\ wpc' = [wpc EXCEPT ![w] = "listening"]
    /\ UNCHANGED <<shared, owner, callerVars, inbox, cur, idx, log, seen, nDelivered,
                   nHandled, now, nEvents, nStarts, lastPress, limit>>

\* rdev::listen subscribes the thread to the event source
Subscribe(w) ==
    /\ wpc[w] = "spawned"
    /\ wpc' = [wpc EXCEPT ![w] = "listening"]
    /\ UNCHANGED <<shared, owner, callerVars, inbox, cur, idx, log, seen, nDelivered,
                   nHandled, now, nEvents, nStarts, lastPress, limit>>

\* rdev::listen returns Err: .expect(...) panics and the thread ends
ListenFails(w) ==
    /\ wpc[w] = "spawned"
    /\ wpc' = [wpc EXCEPT ![w] = "failed"]
    /\ UNCHANGED <<shared, owner, callerVars, inbox, cur, idx, log, seen, nDelivered,
                   nHandled, now, nEvents, nStarts, lastPress, limit>>

Subscribed(w) == wpc[w] \notin {"unborn", "spawned", "failed"}

\* Instant::now(): the monotonic clock, read at t, has not gone back
ClockReads(t) == t \in now..MaxTime

\* a key transition happens at some time t: the event source observes it and
\* hands it to every subscriber (only the time of a press is of consequence:
\* any other event is stamped with the last clock value)
KeyEvent(e) ==
    /\ nEvents < limit.events
    /\ \E w \in Workers : Subscribed(w)
    /\ \A w \in Workers : Len(inbox[w]) < MaxQueue
    /\ \E t \in 0..MaxTime :
         /\ ClockReads(t)
         /\ e.event_type # "KeyPress" => t = now
         /\ now' = t
         /\ inbox' = [w \in Workers |-> IF Subscribed(w) THEN Append(inbox[w], Event(e, t))
                                        ELSE inbox[w]]
    /\ nDelivered' = [w \in Workers |-> IF Subscribed(w) THEN nDelivered[w] + 1
                                        ELSE nDelivered[w]]
    /\ nEvents' = nEvents + 1
    /\ UNCHANGED <<shared, owner, callerVars, wpc, cur, idx, log, seen, nHandled,
                   nStarts, lastPress, limit>>

\* ------------------------------------------------------- the event handler
\* mutant: the event stays at the head of the queue and is handled again
HandlerEnterKeepsEvent(w) ==
    /\ wpc[w] = "listening"
    /\ inbox[w] # <<>>
    /\ nHandled[w] < limit.events
    /\ cur' = [cur EXCEPT ![w] = Head(inbox[w])]
    /\ idx' = [idx EXCEPT ![w] = 1]
    /\ log' = [log EXCEPT ![w] = <<>>]
    /\ seen' = [seen EXCEPT ![w] = <<shortcuts>>]
    /\ wpc' = [wpc EXCEPT ![w] = "lock"]
    /\ UNCHANGED <<shared, owner, callerVars, inbox, nDelivered, nHandled, now, nEvents,
                   nStarts, lastPress, limit>>

\* listen calls the closure with the next event
HandlerEnter(w) ==
    /\ wpc[w] = "listening"
    /\ inbox[w] # <<>>
    /\ cur' = [cur EXCEPT ![w] = Head(inbox[w])]
    /\ inbox' = [inbox EXCEPT ![w] = Tail(inbox[w])]
    /\ idx' = [idx EXCEPT ![w] = 1]
    /\ log' = [log EXCEPT ![w] = <<>>]
    /\ seen' = [seen EXCEPT ![w] = <<shortcuts>>]
    /\ wpc' = [wpc EXCEPT ![w] = "lock"]
    /\ UNCHANGED <<shared, owner, callerVars, nDelivered, nHandled, now, nEvents, nStarts,
                   lastPress, limit>>

\* mutant: the second listener thread takes the four mutexes in the reverse
\* order
HandlerLockReversed(w) ==
    /\ wpc[w] = "lock"
    /\ LET lock == IF w = 1 THEN LockOrder[idx[w]]
                   ELSE LockOrder[Len(LockOrder) + 1 - idx[w]]
       IN  /\ owner[lock] = None
           /\ owner' = [owner EXCEPT ![lock] = Some(WorkerThread(w))]
    /\ IF idx[w] = Len(LockOrder)
       THEN /\ wpc' = [wpc EXCEPT ![w] = "match"]
            /\ idx' = [idx EXCEPT ![w] = 0]
       ELSE /\ idx' = [idx EXCEPT ![w] = idx[w] + 1]
            /\ wpc' = wpc
    /\ UNCHANGED <<shared, callerVars, inbox, cur, log, seen, nDelivered, nHandled, now,
                   nEvents, nStarts, lastPress, limit>>

\* the four lock().unwrap() calls, in LockOrder
HandlerLock(w) ==
    /\ wpc[w] = "lock"
    /\ owner[LockOrder[idx[w]]] = None
    /\ owner' = [owner EXCEPT ![LockOrder[idx[w]]] = Some(WorkerThread(w))]
    /\ IF idx[w] = Len(LockOrder)
       THEN /\ wpc' = [wpc EXCEPT ![w] = "match"]
            /\ idx' = [idx EXCEPT ![w] = 0]
       ELSE /\ idx' = [idx EXCEPT ![w] = idx[w] + 1]
            /\ wpc' = wpc
    /\ UNCHANGED <<shared, callerVars, inbox, cur, log, seen, nDelivered, nHandled, now,
                   nEvents, nStarts, lastPress, limit>>

\* mutant: the last-pressed key is updated before the scans
OnKeyPressUpdatesFirst(w) ==
    /\ wpc[w] = "match"
    /\ cur[w].event_type = "KeyPress"
    /\ pressed_keys' = pressed_keys \cup {cur[w].key}
    /\ last_key_pressed' = Some(cur[w].key)
    /\ wpc' = [wpc EXCEPT ![w] = "combination"]
    /\ idx' = [idx EXCEPT ![w] = 1]
    /\ nHandled' = [nHandled EXCEPT ![w] = nHandled[w] + 1]
    /\ seen' = [seen EXCEPT ![w] = Append(seen[w], shortcuts)]
    /\ UNCHANGED <<shortcuts, last_key_press_time, owner, callerVars,
                   inbox, cur, log, nDelivered, now, nEvents, nStarts, lastPress, limit>>

\* EventType::KeyPress(key): pressed_keys.insert(key)
OnKeyPress(w) ==
    /\ wpc[w] = "match"
    /\ cur[w].event_type = "KeyPress"
    /\ pressed_keys' = pressed_keys \cup {cur[w].key}
    /\ wpc' = [wpc EXCEPT ![w] = "combination"]
    /\ idx' = [idx EXCEPT ![w] = 1]
    /\ nHandled' = [nHandled EXCEPT ![w] = nHandled[w] + 1]
    /\ seen' = [seen EXCEPT ![w] = Append(seen[w], shortcuts)]
    /\ UNCHANGED <<shortcuts, last_key_press_time, last_key_pressed, owner, callerVars,
                   inbox, cur, log, nDelivered, now, nEvents, nStarts, lastPress, limit>>

\* mutant: a release goes on to the scans as a press does
OnKeyReleaseThenScan(w) ==
    /\ wpc[w] = "match"
    /\ cur[w].event_type = "KeyRelease"
    /\ pressed_keys' = pressed_keys \ {cur[w].key}
    /\ wpc' = [wpc EXCEPT ![w] = "combination"]
    /\ idx' = [idx EXCEPT ![w] = 1]
    /\ nHandled' = [nHandled EXCEPT ![w] = nHandled[w] + 1]
    /\ seen' = [seen EXCEPT ![w] = Append(seen[w], shortcuts)]
    /\ UNCHANGED <<shortcuts, last_key_press_time, last_key_pressed, owner, callerVars,
                   inbox, cur, log, nDelivered, now, nEvents, nStarts, lastPress, limit>>

\* mutant: a release empties the held set
OnKeyReleaseClears(w) ==
    /\ wpc[w] = "match"
    /\ cur[w].event_type = "KeyRelease"
    /\ pressed_keys' = {}
    /\ wpc' = [wpc EXCEPT ![w] = "return"]
    /\ nHandled' = [nHandled EXCEPT ![w] = nHandled[w] + 1]
    /\ seen' = [seen EXCEPT ![w] = Append(seen[w], shortcuts)]
    /\ UNCHANGED <<shortcuts, last_key_press_time, last_key_pressed, owner, callerVars,
                   inbox, cur, idx, log, nDelivered, now, nEvents, nStarts, lastPress, limit>>

\* EventType::KeyRelease(key): pressed_keys.remove(&key)
OnKeyRelease(w) ==
    /\ wpc[w] = "match"
    /\ cur[w].event_type = "KeyRelease"
    /\ pressed_keys' = pressed_keys \ {cur[w].key}
    /\ wpc' = [wpc EXCEPT ![w] = "return"]
    /\ nHandled' = [nHandled EXCEPT ![w] = nHandled[w] + 1]
    /\ seen' = [seen EXCEPT ![w] = Append(seen[w], shortcuts)]
    /\ UNCHANGED <<shortcuts, last_key_press_time, last_key_pressed, owner, callerVars,
                   inbox, cur, idx, log, nDelivered, now, nEvents, nStarts, lastPress, limit>>

\* _ => {}
OnOtherEvent(w) ==
    /\ wpc[w] = "match"
    /\ cur[w].event_type = "Other"
    /\ wpc' = [wpc EXCEPT ![w] = "return"]
    /\ nHandled' = [nHandled EXCEPT ![w] = nHandled[w] + 1]
    /\ seen' = [seen EXCEPT ![w] = Append(seen[w], shortcuts)]
    /\ UNCHANGED <<shared, owner, callerVars, inbox, cur, idx, log, nDelivered, now,
                   nEvents, nStarts, lastPress, limit>>

\* one check of a scan: in which loop, of which shortcut, at what clock value,
\* and whether the callback ran
Check(pass, shortcut, t, fired) ==
    [pass |-> pass, callback |-> shortcut.callback, at |-> t, fired |-> fired]

\* mutant: the key set must equal the held set
CombinationMatchesExactly(shortcut_type) ==
    shortcut_type.keys = pressed_keys

\* keys.is_subset(&pressed_keys)
CombinationMatches(shortcut_type) ==
    shortcut_type.keys \subseteq pressed_keys

\* mutant: the registry guard is dropped before the callbacks run
CombinationStepUnlocked(w) ==
    /\ wpc[w] = "combination"
    /\ owner' = [owner EXCEPT !["shortcuts"] = None]
    /\ seen' = [seen EXCEPT ![w] = IF idx[w] = 1 THEN Append(seen[w], shortcuts) ELSE seen[w]]
    /\ IF idx[w] <= Len(shortcuts)
       THEN /\ idx' = [idx EXCEPT ![w] = idx[w] + 1]
            /\ wpc' = wpc
            /\ log' = [log EXCEPT ![w] =
                         IF shortcuts[idx[w]].shortcut_type.tag = "Combination"
                         THEN Append(log[w], Check("combination", shortcuts[idx[w]], now,
                                       CombinationMatches(shortcuts[idx[w]].shortcut_type)))
                         ELSE log[w]]
       ELSE /\ idx' = [idx EXCEPT ![w] = 1]
            /\ log' = log
            /\ wpc' = [wpc EXCEPT ![w] = IF last_key_press_time # None THEN "succession"
                                         ELSE "update"]
    /\ UNCHANGED <<shared, callerVars, inbox, cur, nDelivered, nHandled, now,
                   nEvents, nStarts, lastPress, limit>>

\* mutant: one loop over the registry checks the shortcuts of both variants
ScanStepBothVariants(w) ==
    /\ wpc[w] = "combination"
    /\ seen' = [seen EXCEPT ![w] = IF idx[w] = 1 THEN Append(seen[w], shortcuts) ELSE seen[w]]
    /\ IF idx[w] <= Len(shortcuts)
       THEN /\ idx' = [idx EXCEPT ![w] = idx[w] + 1]
            /\ wpc' = wpc
            /\ log' = [log EXCEPT ![w] =
                         IF shortcuts[idx[w]].shortcut_type.tag = "Combination"
                         THEN Append(log[w], Check("combination", shortcuts[idx[w]], now,
                                       CombinationMatches(shortcuts[idx[w]].shortcut_type)))
                         ELSE IF last_key_press_time # None
                         THEN Append(log[w], Check("succession", shortcuts[idx[w]], now,
                                       /\ shortcuts[idx[w]].shortcut_type.key = cur[w].key
                                       /\ Some(cur[w].key) = last_key_pressed
                                       /\ now - last_key_press_time[1]
                                            <= shortcuts[idx[w]].shortcut_type.timeout))
                         ELSE log[w]]
       ELSE /\ idx' = [idx EXCEPT ![w] = 0]
            /\ log' = log
            /\ wpc' = [wpc EXCEPT ![w] = "update"]
    /\ UNCHANGED <<shared, owner, callerVars, inbox, cur, nDelivered, nHandled, now,
                   nEvents, nStarts, lastPress, limit>>

\* one iteration of "for shortcut in shortcuts.iter()" of the combination scan
\* (the callback runs inside it), or the end of the loop
CombinationStep(w) ==
    /\ wpc[w] = "combination"
    /\ seen' = [seen EXCEPT ![w] = IF idx[w] = 1 THEN Append(seen[w], shortcuts) ELSE seen[w]]
    /\ IF idx[w] <= Len(shortcuts)
       THEN /\ idx' = [idx EXCEPT ![w] = idx[w] + 1]
            /\ wpc' = wpc
            /\ log' = [log EXCEPT ![w] =
                         IF shortcuts[idx[w]].shortcut_type.tag = "Combination"
                         THEN Append(log[w], Check("combination", shortcuts[idx[w]], now,
                                       CombinationMatches(shortcuts[idx[w]].shortcut_type)))
                         ELSE log[w]]
       ELSE /\ idx' = [idx EXCEPT ![w] = 1]
            /\ log' = log
            \* if let Some(last_press) = *last_key_press_time
            /\ wpc' = [wpc EXCEPT ![w] = IF last_key_press_time # None THEN "succession"
                                         ELSE "update"]
    /\ UNCHANGED <<shared, owner, callerVars, inbox, cur, nDelivered, nHandled, now,
                   nEvents, nStarts, lastPress, limit>>

\* *succession_key == key && Some(*succession_key) == *last_key_pressed: the
\* conjuncts before last_press.elapsed() is called
SuccessionKeyMatches(shortcut_type, key) ==
    /\ shortcut_type.key = key
    /\ Some(shortcut_type.key) = last_key_pressed

\* last_press.elapsed() <= *timeout, elapsed() reading the clock at t
WithinTimeout(shortcut_type, t) ==
    t - last_key_press_time[1] <= shortcut_type.timeout

\* one iteration of "for shortcut in shortcuts.iter()" of the succession scan
\* (the callback runs inside it), or the end of the loop
SuccessionStep(w) ==
    /\ wpc[w] = "succession"
    /\ seen' = [seen EXCEPT ![w] = IF idx[w] = 1 THEN Append(seen[w], shortcuts) ELSE seen[w]]
    /\ IF idx[w] <= Len(shortcuts)
       THEN /\ idx' = [idx EXCEPT ![w] = idx[w] + 1]
            /\ wpc' = wpc
            /\ IF shortcuts[idx[w]].shortcut_type.tag = "Succession"
               THEN IF SuccessionKeyMatches(shortcuts[idx[w]].shortcut_type, cur[w].key)
                    THEN \E t \in 0..MaxTime :
                           /\ ClockReads(t)
                           /\ now' = t
                           /\ log' = [log EXCEPT ![w] =
                                Append(log[w], Check("succession", shortcuts[idx[w]], t,
                                         WithinTimeout(shortcuts[idx[w]].shortcut_type, t)))]
                    ELSE /\ now' = now
                         /\ log' = [log EXCEPT ![w] =
                                Append(log[w], Check("succession", shortcuts[idx[w]], now, FALSE))]
               ELSE /\ now' = now
                    /\ log' = log
       ELSE /\ idx' = [idx EXCEPT ![w] = 0]
            /\ log' = log
            /\ now' = now
            /\ wpc' = [wpc EXCEPT ![w] = "update"]
    /\ UNCHANGED <<shared, owner, callerVars, inbox, cur, nDelivered, nHandled,
                   nEvents, nStarts, lastPress, limit>>

\* *last_key_press_time = Some(Instant::now()); *last_key_pressed = Some(key)
UpdateLastPress(w) ==
    /\ wpc[w] = "update"
    /\ \E t \in 0..MaxTime :
         /\ ClockReads(t)
         /\ now' = t
         /\ last_key_press_time' = Some(t)
         /\ lastPress' = Some(<<cur[w].key, t, cur[w].time>>)
    /\ last_key_pressed' = Some(cur[w].key)
    /\ wpc' = [wpc EXCEPT ![w] = "return"]
    /\ idx' = [idx EXCEPT ![w] = 0]
    /\ UNCHANGED <<shortcuts, pressed_keys, owner, callerVars, inbox, cur, log, seen,
                   nDelivered, nHandled, nEvents, nStarts, limit>>

\* the closure returns: its four guards are dropped
HandlerReturn(w) ==
    /\ wpc[w] = "return"
    /\ owner' = [l \in Locks |-> IF owner[l] = Some(WorkerThread(w)) THEN None ELSE owner[l]]
    /\ wpc' = [wpc EXCEPT ![w] = "listening"]
    /\ cur' = [cur EXCEPT ![w] = NoEvent]
    /\ log' = [log EXCEPT ![w] = <<>>]
    /\ seen' = [seen EXCEPT ![w] = <<>>]
    /\ UNCHANGED <<shared, callerVars, inbox, idx, nDelivered, nHandled,
                   now, nEvents, nStarts, lastPress, limit>>

Next ==
    \/ \E keys \in KeySets : register_combination(keys)
    \/ \E key \in SuccessionKeys, timeout \in Timeouts : register_succession(key, timeout)
    \/ RegisterLock
    \/ RegisterPush
    \/ start_listening
    \/ \E w \in Workers : Subscribe(w)
    \/ \E w \in Workers : ListenFails(w)
    \/ \E e \in EventTypes : KeyEvent(e)
    \/ \E w \in Workers : HandlerEnter(w)
    \/ \E w \in Workers : HandlerLock(w)
    \/ \E w \in Workers : OnKeyPress(w)
    \/ \E w \in Workers : OnKeyRelease(w)
    \/ \E w \in Workers : OnOtherEvent(w)
    \/ \E w \in Workers : CombinationStep(w)
    \/ \E w \in Workers : SuccessionStep(w)
    \/ \E w \in Workers : UpdateLastPress(w)
    \/ \E w \in Workers : HandlerReturn(w)

Spec == Init /\ [][Next]_vars

\* a run with two start_listening calls, for the progress of the threads
LiveLimit == [starts |-> 2, events |-> MaxEvents - 2, calls |-> MaxShortcuts - 1]

LiveInit ==
    /\ shortcuts = <<>>
    /\ pressed_keys = {}
    /\ last_key_press_time = None
    /\ last_key_pressed = None
    /\ owner = [l \in Locks |-> None]
    /\ cpc = "idle"
    /\ carg = NoShortcut
    /\ wpc = [w \in Workers |-> "unborn"]
    /\ inbox = [w \in Workers |-> <<>>]
    /\ cur = [w \in Workers |-> NoEvent]
    /\ idx = [w \in Workers |-> 0]
    /\ now = 0
    /\ nEvents = 0
    /\ nCalls = 0
    /\ args = <<>>
    /\ nStarts = 0
    /\ log = [w \in Workers |-> <<>>]
    /\ seen = [w \in Workers |-> <<>>]
    /\ lastPress = None
    /\ limit = LiveLimit
    /\ nDelivered = [w \in Workers |-> 0]
    /\ nHandled = [w \in Workers |-> 0]

\* every thread that can take a step is scheduled in the end, and every
\* callback returns: a thread waiting in lock() goes on once the mutex stays
\* free
Fairness ==
    /\ WF_vars(RegisterLock)
    /\ WF_vars(RegisterPush)
    /\ \A w \in Workers :
         /\ WF_vars(HandlerEnter(w))
         /\ WF_vars(HandlerLock(w))
         /\ WF_vars(OnKeyPress(w))
         /\ WF_vars(OnKeyRelease(w))
         /\ WF_vars(OnOtherEvent(w))
         /\ WF_vars(CombinationStep(w))
         /\ WF_vars(SuccessionStep(w))
         /\ WF_vars(UpdateLastPress(w))
         /\ WF_vars(HandlerReturn(w))

FairSpec == LiveInit /\ [][Next]_vars /\ Fairness

\* ------------------------------------------------------------- properties
\* the positions of the handler between its state update and its return
InBody(w) == wpc[w] \in {"combination", "succession", "update", "return"}

\* the checks of the shortcut with callback c logged for the event w handles
ChecksOf(w, c) == {n \in DOMAIN log[w] : log[w][n].callback = c}
TimesFired(w, c) == Cardinality({n \in ChecksOf(w, c) : log[w][n].fired})

IsCombination(shortcut) == shortcut.shortcut_type.tag = "Combination"
IsSuccession(shortcut) == shortcut.shortcut_type.tag = "Succession"

\* C1: once the combination scan of a press event is over, with the pressed
\* key in the held set, each Combination shortcut has been invoked exactly once
\* if its key set is a subset of the held set and not at all otherwise,
\* whichever key was pressed.
CombinationFiresOnEveryQualifyingPress ==
    \A w \in Workers :
        (wpc[w] \in {"succession", "update"} \/ (wpc[w] = "return" /\ cur[w].event_type = "KeyPress"))
        => /\ cur[w].key \in pressed_keys
           /\ \A i \in 1..Len(shortcuts) :
                IsCombination(shortcuts[i])
                => TimesFired(w, shortcuts[i].callback) =
                     IF shortcuts[i].shortcut_type.keys \subseteq pressed_keys THEN 1 ELSE 0

\* a combination invoked on the press of a key that is not one of its keys
CombinationRefiredByOtherKey ==
    \E w \in Workers, i \in 1..Len(shortcuts) :
        /\ wpc[w] = "return"
        /\ cur[w].event_type = "KeyPress"
        /\ IsCombination(shortcuts[i])
        /\ shortcuts[i].shortcut_type.keys # {}
        /\ cur[w].key \notin shortcuts[i].shortcut_type.keys
        /\ TimesFired(w, shortcuts[i].callback) = 1

\* C2 as claimed, for a run with one listener thread: when the succession scan
\* of a press event is over, each Succession shortcut (key K, timeout T) has
\* been invoked exactly once if the press targets K, the press before it also
\* targeted K and the time between the two presses is at most T, and not at all
\* otherwise.
SuccessionFiresIffPressesWithinTimeout ==
    \A w \in Workers :
        (nStarts = 1 /\ wpc[w] = "update")
        => \A i \in 1..Len(shortcuts) :
             IsSuccession(shortcuts[i])
             => TimesFired(w, shortcuts[i].callback) =
                  IF /\ lastPress # None
                     /\ cur[w].key = shortcuts[i].shortcut_type.key
                     /\ lastPress[1][1] = shortcuts[i].shortcut_type.key
                     /\ cur[w].time - lastPress[1][3] <= shortcuts[i].shortcut_type.timeout
                  THEN 1 ELSE 0

\* what the succession scan does: each Succession shortcut (key K, timeout T)
\* has been invoked exactly once if the press targets K, the press handled
\* before it also targeted K and the time from the clock value recorded at the
\* end of that press's handling to the clock value read by the comparison is at most
\* T, and not at all otherwise; on the first press ever handled no Succession
\* shortcut is checked.
SuccessionFiresIffRepeatedWithinTimeout ==
    \A w \in Workers :
        wpc[w] = "update"
        => \A i \in 1..Len(shortcuts) :
             IsSuccession(shortcuts[i])
             => LET c == shortcuts[i].callback
                    K == shortcuts[i].shortcut_type.key
                    T == shortcuts[i].shortcut_type.timeout
                IN  /\ Cardinality(ChecksOf(w, c)) = IF lastPress = None THEN 0 ELSE 1
                    /\ \A n \in ChecksOf(w, c) :
                         log[w][n].fired <=>
                           /\ cur[w].key = K
                           /\ lastPress[1][1] = K
                           /\ log[w][n].at - lastPress[1][2] <= T

\* a succession invoked with the measured time exactly at a positive timeout
SuccessionFiredAtTimeout ==
    \E w \in Workers, i \in 1..Len(shortcuts) :
        /\ wpc[w] = "update"
        /\ IsSuccession(shortcuts[i])
        /\ shortcuts[i].shortcut_type.timeout > 0
        /\ \E n \in ChecksOf(w, shortcuts[i].callback) :
             /\ log[w][n].fired
             /\ log[w][n].at - lastPress[1][2] = shortcuts[i].shortcut_type.timeout

\* C3: while a release event is handled no shortcut is checked and no callback
\* runs, whatever the registry and the held set are.
ReleaseInvokesNothing ==
    \A w \in Workers :
        cur[w].event_type = "KeyRelease"
        => /\ log[w] = <<>>
           /\ wpc[w] \notin {"combination", "succession", "update"}

\* a succession invoked for two presses further apart than its timeout: the
\* first was recorded, at the end of its handling, later than it happened
SuccessionFiredBeyondTimeout ==
    \E w \in Workers, i \in 1..Len(shortcuts) :
        /\ nStarts = 1
        /\ wpc[w] = "update"
        /\ IsSuccession(shortcuts[i])
        /\ shortcuts[i].shortcut_type.timeout = 1
        /\ TimesFired(w, shortcuts[i].callback) = 1
        /\ cur[w].time = 2
        /\ lastPress[1][3] = 0

\* a release handled while a registered combination is still fully held
ReleaseHandledWhileCombinationHeld ==
    \E w \in Workers, i \in 1..Len(shortcuts) :
        /\ wpc[w] = "return"
        /\ cur[w].event_type = "KeyRelease"
        /\ IsCombination(shortcuts[i])
        /\ shortcuts[i].shortcut_type.keys # {}
        /\ shortcuts[i].shortcut_type.keys \subseteq pressed_keys

\* C4 as claimed: the callbacks invoked for one press event run in the order
\* their shortcuts were registered, whatever the variants.
ActionsFireInRegistrationOrder ==
    \A w \in Workers : \A a, b \in DOMAIN log[w] :
        (a < b /\ log[w][a].fired /\ log[w][b].fired)
        => log[w][a].callback < log[w][b].callback

\* C4 as amended: of two callbacks invoked for one press event, two of the
\* same variant run in the order their shortcuts were registered, and a
\* Combination's runs before a Succession's whatever the registration order.
ActionsFireInRegistrationOrderWithinVariant ==
    \A w \in Workers : \A a, b \in DOMAIN log[w] :
        (a < b /\ log[w][a].fired /\ log[w][b].fired)
        => /\ log[w][a].pass = log[w][b].pass => log[w][a].callback < log[w][b].callback
           /\ log[w][a].pass # log[w][b].pass => log[w][a].pass = "combination"

\* a Combination registered after a Succession, invoked before it
LaterCombinationFiredBeforeSuccession ==
    \E w \in Workers : \E a, b \in DOMAIN log[w] :
        /\ a < b
        /\ log[w][a].fired
        /\ log[w][b].fired
        /\ log[w][a].callback > log[w][b].callback

\* C5: a callback runs only for an event whose state update came after its
\* registration returned, and every shortcut registered before the handler was
\* called for a press event has been checked by the end of its scans: a
\* Combination once, against the held set, a Succession once unless this is
\* the first press handled.
RegistrationIsNotRetroactive ==
    \A w \in Workers :
        /\ Len(seen[w]) >= 2
           => \A n \in DOMAIN log[w] :
                \E i \in 1..Len(seen[w][2]) : seen[w][2][i].callback = log[w][n].callback
        /\ wpc[w] = "update"
           => \A i \in 1..Len(seen[w][1]) :
                LET sc == seen[w][1][i]
                IN  /\ IsCombination(sc)
                       => /\ Cardinality(ChecksOf(w, sc.callback)) = 1
                          /\ TimesFired(w, sc.callback) =
                               IF sc.shortcut_type.keys \subseteq pressed_keys THEN 1 ELSE 0
                    /\ IsSuccession(sc)
                       => Cardinality(ChecksOf(w, sc.callback)) =
                            IF lastPress = None THEN 0 ELSE 1

\* a shortcut registered while an event waited for the registry mutex, checked
\* for that event
RegisteredBetweenEnterAndScan ==
    \E w \in Workers :
        /\ wpc[w] = "update"
        /\ Len(seen[w][1]) < Len(seen[w][2])
        /\ log[w] # <<>>
        /\ log[w][Len(log[w])].callback = Len(seen[w][2])
        /\ log[w][Len(log[w])].fired

\* C6: every registration call that has returned left exactly one entry, its
\* own, in the registry: the k-th entry carries the callback of the k-th call.
RegistrationsNeitherLostNorDuplicated ==
    /\ Len(shortcuts) = nCalls - (IF cpc = "idle" THEN 0 ELSE 1)
    /\ \A i \in 1..Len(shortcuts) : shortcuts[i].callback = i

\* two registrations of the same shortcut type, both kept, made while a
\* listener runs
SameTypeRegisteredTwiceWhileListening ==
    /\ Len(shortcuts) >= 2
    /\ shortcuts[1].shortcut_type = shortcuts[2].shortcut_type
    /\ \E w \in Workers : InBody(w)

\* C7: from the state update of an event to the return of its handler the
\* registry is the one met at the state update: both scans meet the same
\* registry and no registration takes effect in between.
EventProcessingIsAtomicForRegistration ==
    \A w \in Workers :
        InBody(w) => \A k \in 2..Len(seen[w]) : seen[w][k] = shortcuts

\* a registration call waiting while an event is past both of its scans
RegistrationWaitsDuringEvent ==
    \E w \in Workers :
        /\ wpc[w] = "update"
        /\ Len(seen[w]) = 4
        /\ Len(shortcuts) >= 1
        /\ cpc = "lock"

\* C8 as claimed, for the states from the first start_listening call on:
\* whatever calls were made, exactly one listener thread has been started.
ExactlyOneWorkerAlways ==
    nStarts >= 1 => Cardinality({w \in Workers : wpc[w] # "unborn"}) = 1

\* C8 as amended: there is one listener thread per start_listening call made,
\* and each thread has matched every event delivered to it exactly once, but
\* for those still in its queue or entering its handler.
OneWorkerPerStartCall ==
    /\ Cardinality({w \in Workers : wpc[w] # "unborn"}) = nStarts
    /\ \A w \in Workers :
         /\ nDelivered[w] = nHandled[w] + Len(inbox[w])
                            + (IF wpc[w] \in {"lock", "match"} THEN 1 ELSE 0)
         /\ ~Subscribed(w) => nDelivered[w] = 0

\* two listener threads, each of which matched the same single key event
BothWorkersMatchedOneEvent ==
    /\ nStarts = 2
    /\ nEvents = 1
    /\ \A w \in Workers : nHandled[w] = 1

\* C9 as claimed: every Combination of the registry has a key and every
\* Succession a positive timeout.
RegistryEntriesWellFormed ==
    \A i \in 1..Len(shortcuts) :
        /\ IsCombination(shortcuts[i]) => shortcuts[i].shortcut_type.keys # {}
        /\ IsSuccession(shortcuts[i]) => shortcuts[i].shortcut_type.timeout > 0

\* C9 as amended: no registration call fails: the k-th entry of the registry
\* holds the arguments of the k-th call as they were passed, and once the
\* caller is back every call made has its entry.
RegistryHoldsArgumentsAsPassed ==
    /\ \A i \in 1..Len(shortcuts) :
         i <= Len(args) /\ shortcuts[i].shortcut_type = args[i]
    /\ cpc = "idle" => Len(shortcuts) = Len(args)

\* a registry holding a Combination without keys and a Succession with a zero
\* timeout
EmptyCombinationAndZeroTimeoutRegistered ==
    \E i, j \in 1..Len(shortcuts) :
        /\ IsCombination(shortcuts[i]) /\ shortcuts[i].shortcut_type.keys = {}
        /\ IsSuccession(shortcuts[j]) /\ shortcuts[j].shortcut_type.timeout = 0

\* C10: the caller never waits in start_listening: the only place it waits is
\* the lock() of the registration call it is making.
StartListeningDoesNotBlock ==
    \/ cpc = "idle"
    \/ cpc \in {"lock", "push"} /\ carg.callback = nCalls

\* the caller in a registration call while the thread spawned by its
\* start_listening call has not subscribed yet
CallerRegistersBeforeListenerSubscribes ==
    /\ cpc = "lock"
    /\ \E w \in Workers : wpc[w] = "spawned"

\* the positions of the handler in which callbacks run
InScan(w) == wpc[w] \in {"combination", "succession"}

\* C11: while a listener thread is in its scans, where the callbacks run, no
\* step lets another thread begin the state update of an event or changes the
\* registry, and no registration call gets past its lock(): the only step the
\* caller can take is to enter a registration call, which then waits.
ActionStallsEventsAndRegistrations ==
    [][\A w \in Workers :
          InScan(w)
          => /\ shortcuts' = shortcuts
             /\ cpc' # cpc => (cpc = "idle" /\ cpc' = "lock")
             /\ \A v \in Workers \ {w} :
                  /\ nHandled'[v] = nHandled[v]
                  /\ ~InBody(v) /\ ~InBody(v)']_vars

\* a callback has run and the scan goes on while a registration call waits in
\* lock() and the next event waits for the handler to return
RegistrationAndEventWaitForAction ==
    \E w \in Workers :
        /\ wpc[w] = "combination"
        /\ \E n \in DOMAIN log[w] : log[w][n].fired
        /\ cpc = "lock"
        /\ inbox[w] # <<>>

\* C12 as claimed, for a run with one listener thread: the pair recorded for a
\* press is its key and the time it happened, and the elapsed value a succession
\* check compares with the timeout is the time of the press minus the time of
\* the press before it, whatever time the callbacks took.
ElapsedIsTimeBetweenPresses ==
    \A w \in Workers :
        nStarts = 1
        => /\ (wpc[w] = "return" /\ cur[w].event_type = "KeyPress")
              => /\ last_key_pressed = Some(cur[w].key)
                 /\ last_key_press_time = Some(cur[w].time)
           /\ wpc[w] \in {"succession", "update"}
              => \A n \in DOMAIN log[w] :
                   (/\ log[w][n].pass = "succession"
                    /\ SuccessionKeyMatches(shortcuts[log[w][n].callback].shortcut_type,
                                            cur[w].key))
                   => log[w][n].at - last_key_press_time[1] = cur[w].time - lastPress[1][3]

\* the listener thread w applies the state update of a press or release of k
Updates(w, k) ==
    /\ wpc[w] = "match"
    /\ wpc'[w] # "match"
    /\ cur[w].key = k
    /\ cur[w].event_type \in {"KeyPress", "KeyRelease"}

\* C13: the held set starts empty, and after every step a key is in it exactly
\* if the latest event of that key whose state update has been applied is a
\* press: the update of a press puts the key in (once, however often it is
\* pressed), the update of a release takes it out (held or not), and no other
\* step changes the set.
HeldSetIsKeysLastPressed ==
    /\ pressed_keys = {}
    /\ [][\A k \in Keys :
            (k \in pressed_keys') =
               IF \E w \in Workers : Updates(w, k)
               THEN \E w \in Workers : Updates(w, k) /\ cur[w].event_type = "KeyPress"
               ELSE k \in pressed_keys]_vars

\* the second of two presses of A, with no release, handled: A is held once
KeyPressedTwiceHeldOnce ==
    \E w \in Workers :
        /\ nStarts = 1
        /\ nEvents = 2
        /\ nHandled[w] = 2
        /\ wpc[w] = "update"
        /\ cur[w].key = "A"
        /\ lastPress # None
        /\ lastPress[1][1] = "A"
        /\ pressed_keys = {"A"}

\* a step of the listener thread w
StepOf(w) == wpc'[w] # wpc[w] \/ idx'[w] # idx[w]

\* the handling of a release changes nothing but the held set, from which it
\* takes its key, held or not: the registry and the last-pressed pair stay
ReleaseChangesOnlyHeldSet ==
    [][\A w \in Workers :
          (cur[w].event_type = "KeyRelease" /\ StepOf(w))
          => /\ shortcuts' = shortcuts
             /\ last_key_press_time' = last_key_press_time
             /\ last_key_pressed' = last_key_pressed
             /\ pressed_keys' = IF wpc[w] = "match" THEN pressed_keys \ {cur[w].key}
                                 ELSE pressed_keys]_vars

\* in a run with one listener thread, a press of K that follows a press of K
\* within the timeout, with no other press between them, invokes Succession(K)
PressWithinTimeoutFires ==
    \A w \in Workers :
        (nStarts = 1 /\ wpc[w] = "update" /\ lastPress # None)
        => \A i \in 1..Len(shortcuts) :
             (/\ IsSuccession(shortcuts[i])
              /\ shortcuts[i].shortcut_type.key = cur[w].key
              /\ lastPress[1][1] = cur[w].key
              /\ cur[w].time - lastPress[1][3] <= shortcuts[i].shortcut_type.timeout)
             => TimesFired(w, shortcuts[i].callback) = 1

\* C14 as claimed: a release changes nothing but the held set, and hence
\* Press K, Release K, Press K within the timeout still invokes Succession(K).
ReleaseKeepsSuccessionAlive ==
    /\ ReleaseChangesOnlyHeldSet
    /\ []PressWithinTimeoutFires

\* C15: once a press has been handled the last-pressed key is its key, whether
\* or not a callback ran; no step of its handling before the end of the
\* succession scan changes the last-pressed pair, so every succession check
\* uses the pair of the press handled before; and hence no Succession is invoked
\* for a press that follows the press of another key.
LastPressedUpdatedAfterChecks ==
    /\ [](\A w \in Workers :
            /\ (wpc[w] = "return" /\ cur[w].event_type = "KeyPress")
               => last_key_pressed = Some(cur[w].key)
            /\ (wpc[w] = "update" /\ last_key_pressed # Some(cur[w].key))
               => \A n \in DOMAIN log[w] : log[w][n].pass = "succession" => ~log[w][n].fired)
    /\ [][\A w \in Workers :
            (StepOf(w) /\ wpc[w] \in {"lock", "match", "combination", "succession"})
            => /\ last_key_pressed' = last_key_pressed
               /\ last_key_press_time' = last_key_press_time]_vars

\* the press of A after a press of B, checked within the timeout of a
\* registered Succession(A), which is not invoked
OtherKeyBetweenPreventsSuccession ==
    \E w \in Workers, i \in 1..Len(shortcuts) :
        /\ nStarts = 1
        /\ nHandled[w] = 3
        /\ wpc[w] = "update"
        /\ cur[w].key = "A"
        /\ last_key_pressed = Some("B")
        /\ pressed_keys = {"A", "B"}
        /\ IsSuccession(shortcuts[i])
        /\ shortcuts[i].shortcut_type.key = "A"
        /\ \E n \in ChecksOf(w, shortcuts[i].callback) :
             /\ ~log[w][n].fired
             /\ now - last_key_press_time[1] <= shortcuts[i].shortcut_type.timeout

\* C16: the held set and the last-pressed pair start empty; no step of a
\* listener thread changes the registry; no step of a registration call changes
\* the held set or the last-pressed pair; and the only change the registry ever
\* sees is the push of a registration call, which adds the call's entry at the
\* end and keeps the entries before it, in their order.
RegistryIsAppendOnly ==
    /\ pressed_keys = {}
    /\ last_key_press_time = None
    /\ last_key_pressed = None
    /\ [][/\ (\E w \in Workers : StepOf(w)) => shortcuts' = shortcuts
          /\ cpc' # cpc
             => /\ pressed_keys' = pressed_keys
                /\ last_key_press_time' = last_key_press_time
                /\ last_key_pressed' = last_key_pressed
          /\ (cpc = "push" /\ cpc' = "idle")
             => /\ Len(shortcuts') = Len(shortcuts) + 1
                /\ SubSeq(shortcuts', 1, Len(shortcuts)) = shortcuts
                /\ shortcuts'[Len(shortcuts')] = carg
          /\ shortcuts' # shortcuts => (cpc = "push" /\ cpc' = "idle")]_vars

\* a registration appended its entry while keys were held and an event was
\* waiting for the guards
RegisteredWhileKeysHeld ==
    \E w \in Workers :
        /\ wpc[w] = "lock"
        /\ Len(seen[w][1]) = 1
        /\ Len(shortcuts) = 2
        /\ shortcuts[1] = seen[w][1][1]
        /\ pressed_keys # {}
        /\ last_key_pressed # None

\* C17 as claimed: once the subscription of the listener thread has failed, and
\* no other listener thread runs, no event is handled and the held set, the
\* last-pressed pair and the registry stay as they are.
StateFrozenAfterListenFailure ==
    [][((\E w \in Workers : wpc[w] = "failed") /\ (\A w \in Workers : ~Subscribed(w)))
       => /\ nHandled' = nHandled
          /\ pressed_keys' = pressed_keys
          /\ last_key_press_time' = last_key_press_time
          /\ last_key_pressed' = last_key_pressed
          /\ shortcuts' = shortcuts]_vars

\* C17 as amended: a listener thread whose subscription failed stays failed: no
\* event is delivered to it and it handles none; while no other listener
\* thread is subscribed no event is handled and the held set and the
\* last-pressed pair stay as they are; the registry changes only by the push
\* of a registration call, which is still possible.
FailedListenerNeverRuns ==
    [][/\ \A w \in Workers :
            wpc[w] = "failed"
            => /\ wpc'[w] = "failed"
               /\ inbox'[w] = <<>>
               /\ nHandled'[w] = 0
               /\ log'[w] = <<>>
       /\ ((\E w \in Workers : wpc[w] = "failed") /\ (\A w \in Workers : ~Subscribed(w)))
          => /\ nHandled' = nHandled
             /\ pressed_keys' = pressed_keys
             /\ last_key_press_time' = last_key_press_time
             /\ last_key_pressed' = last_key_pressed
             /\ shortcuts' # shortcuts => (cpc = "push" /\ shortcuts' = Push(shortcuts, carg))]_vars

\* the only listener thread has failed and a registration call is about to
\* push its entry
RegistrationAfterListenFailure ==
    /\ nStarts = 1
    /\ wpc[1] = "failed"
    /\ cpc = "push"
    /\ owner["shortcuts"] = Some(CallerThread)

\* the checks of the event w handles that ran their callback, in order
Fired(check) == check.fired
FiredChecks(w) == SelectSeq(log[w], Fired)

\* the Combination shortcuts of the registry whose keys are all held, in
\* registry order
HeldCombination(shortcut) ==
    IsCombination(shortcut) /\ shortcut.shortcut_type.keys \subseteq pressed_keys
HeldCombinations == SelectSeq(shortcuts, HeldCombination)

\* C18: when both scans of a press event are over, the callbacks that ran are
\* first those of all the Combinations whose keys are held, in registration
\* order, and after them those of Successions only, in registration order,
\* whatever the registration order between the two variants.
CombinationsFireBeforeSuccessions ==
    \A w \in Workers :
        wpc[w] = "update"
        => /\ Len(FiredChecks(w)) >= Len(HeldCombinations)
           /\ \A n \in 1..Len(HeldCombinations) :
                /\ FiredChecks(w)[n].pass = "combination"
                /\ FiredChecks(w)[n].callback = HeldCombinations[n].callback
           /\ \A n \in (Len(HeldCombinations) + 1)..Len(FiredChecks(w)) :
                /\ FiredChecks(w)[n].pass = "succession"
                /\ IsSuccession(shortcuts[FiredChecks(w)[n].callback])
                /\ n > Len(HeldCombinations) + 1
                   => FiredChecks(w)[n - 1].callback < FiredChecks(w)[n].callback

\* a Succession registered first and a Combination registered second, both
\* invoked for one press, the Combination first
SuccessionRegisteredFirstFiredLast ==
    \E w \in Workers :
        /\ wpc[w] = "update"
        /\ Len(shortcuts) = 2
        /\ IsSuccession(shortcuts[1])
        /\ IsCombination(shortcuts[2])
        /\ Len(FiredChecks(w)) = 2
        /\ FiredChecks(w)[1].callback = 2
        /\ FiredChecks(w)[2].callback = 1

\* the events delivered to w that its handler has returned from
Completed(w) ==
    nDelivered[w] - Len(inbox[w]) - (IF wpc[w] = "listening" THEN 0 ELSE 1)

\* C19: with every thread scheduled and every callback returning, a
\* registration call that has been entered returns, and the handler returns
\* from every event delivered to a listener thread: no thread waits for a
\* mutex for ever.
NoDeadlock ==
    /\ (cpc # "idle") ~> (cpc = "idle")
    /\ \A w \in Workers : \A n \in 1..MaxEvents :
         (nDelivered[w] >= n) ~> (Completed(w) >= n)

\* one listener thread in its scans with the four mutexes, the other waiting
\* for the first of them and a registration call waiting for the registry
AllThreadsContend ==
    /\ InScan(1)
    /\ wpc[2] = "lock"
    /\ idx[2] = 1
    /\ cpc = "lock"

\* the step that ends the handling of a press by the listener thread w
EndsPress(w) == wpc[w] = "update" /\ wpc'[w] = "return"

\* a press for which a Succession was invoked leaves its own key and a time in
\* the last-pressed pair, as any other press does: firing resets nothing
FiringKeepsLastPressedPair ==
    [][\A w \in Workers :
          (EndsPress(w) /\ \E n \in DOMAIN log[w] : log[w][n].fired)
          => /\ last_key_pressed' = Some(cur[w].key)
             /\ last_key_press_time' # None]_vars

\* C20 as claimed, for a run with one listener thread, press by press: the
\* first press of K of a run of presses of K invokes no Succession(K); every
\* later one, within the timeout of the press before it, invokes it exactly
\* once and leaves K in the last-pressed pair, so that the next press of the
\* run counts again: n presses invoke it n - 1 times.
SuccessionFiresOnEveryRepeat ==
    [][\A w \in Workers : \A i \in 1..Len(shortcuts) :
          (/\ nStarts = 1
           /\ EndsPress(w)
           /\ IsSuccession(shortcuts[i])
           /\ shortcuts[i].shortcut_type.key = cur[w].key)
          => IF lastPress = None \/ lastPress[1][1] # cur[w].key
             THEN TimesFired(w, shortcuts[i].callback) = 0
             ELSE cur[w].time - lastPress[1][3] <= shortcuts[i].shortcut_type.timeout
                  => /\ TimesFired(w, shortcuts[i].callback) = 1
                     /\ last_key_pressed' = Some(cur[w].key)
                     /\ last_key_press_time' # None]_vars

====
